---- MODULE Spec2Model ----
(***************************************************************************)
(* CoPSupportTpl<Scalar> of crocoddyl/multibody/cop-support.hxx: the       *)
(* centre-of-pressure support region (orientation R_, surface normal       *)
(* nsurf_, box_ extent) and the 4x6 inequality matrix A_ with bounds ub_,  *)
(* lb_ that update() derives from it.                                      *)
(*                                                                         *)
(* Scalars are modelled exactly.  Lengths (box_, and so the force block of *)
(* A_) are counted in quanta of 0.05, so that the extent (0.2, 0.1) is     *)
(* <<4, 2>> and the length -1 is -20; the entries of R_, nsurf_ and the  *)
(* moment block of A_ are plain numbers.  The model draws values on which  *)
(* the code's arithmetic is exact: even extents (halving a double is       *)
(* exact), signed-permutation rotations and nonzero axis-aligned normals   *)
(* (their norm is an integer).  A zero vector is not a surface normal and  *)
(* is not drawn.                                                           *)
(***************************************************************************)
EXTENDS Integers, Sequences, FiniteSets

\* The six data members, and the last call made on the object with its
\* argument (update() takes none: there arg is the call it followed).
VARIABLES R_, nsurf_, box_, A_, ub_, lb_, last

state == <<R_, nsurf_, box_, A_, ub_, lb_>>
vars == <<R_, nsurf_, box_, A_, ub_, lb_, last>>

\* std::numeric_limits<Scalar>::max(), in quanta: above every finite extent drawn
ScalarMax == 1024

\* largest half extent (in quanta) and largest normal length the model draws
MaxHalfExtent == 2
MaxNorm == 2

----------------------------------------------------------------------------
\* Fixed-size linear algebra (Eigen), on tuples

UnitZ == <<0, 0, 1>>
Identity == << <<1, 0, 0>>, <<0, 1, 0>>, <<0, 0, 1>> >>

col(M, j) == <<M[1][j], M[2][j], M[3][j]>>
transpose(M) == <<col(M, 1), col(M, 2), col(M, 3)>>
dot(u, v) == u[1] * v[1] + u[2] * v[2] + u[3] * v[3]
cross(u, v) ==
  <<u[2] * v[3] - u[3] * v[2], u[3] * v[1] - u[1] * v[3], u[1] * v[2] - u[2] * v[1]>>
MatVec(M, v) == <<dot(M[1], v), dot(M[2], v), dot(M[3], v)>>
MatMul(M, N) == [i \in 1..3 |-> [j \in 1..3 |-> dot(M[i], col(N, j))]]
scale(k, v) == [i \in 1..Len(v) |-> k * v[i]]
neg(v) == [i \in 1..Len(v) |-> -v[i]]
det(M) == dot(M[1], cross(M[2], M[3]))

setZero(v) == [i \in 1..Len(v) |-> 0]
setOnes(v) == [i \in 1..Len(v) |-> 1]
setZeroMatrix(M) == [i \in 1..Len(M) |-> setZero(M[i])]

squaredNorm(v) == dot(v, v)
\* norm(): exact on the vectors drawn (axis-aligned, so a perfect square)
norm(v) == CHOOSE k \in 0..squaredNorm(v) : k * k = squaredNorm(v)
isUnitary(v) == squaredNorm(v) = 1
normalized(v) == [i \in 1..3 |-> v[i] \div norm(v)]

\* orthonormal with determinant +1
IsRotation(M) == MatMul(M, transpose(M)) = Identity /\ det(M) = 1

\* Quaternions are kept up to a positive factor, <<w, x, y, z>> with integer
\* entries; toRotationMatrix() divides the factor out.
toRotationMatrix(q) ==
  LET w == q[1]  x == q[2]  y == q[3]  z == q[4]
      n == w * w + x * x + y * y + z * z
  IN << << (n - 2 * (y * y + z * z)) \div n, (2 * (x * y - w * z)) \div n,
           (2 * (x * z + w * y)) \div n >>,
        << (2 * (x * y + w * z)) \div n, (n - 2 * (x * x + z * z)) \div n,
           (2 * (y * z - w * x)) \div n >>,
        << (2 * (x * z - w * y)) \div n, (2 * (y * z + w * x)) \div n,
           (n - 2 * (x * x + y * y)) \div n >> >>

\* Directions orthogonal to v that the antiparallel branch of FromTwoVectors
\* (an SVD null-space vector) can return; the sign does not change the rotation.
OrthogonalAxes(v) ==
  {a \in {<<1, 0, 0>>, <<0, 1, 0>>, <<0, 0, 1>>, <<1, 1, 0>>, <<1, -1, 0>>,
          <<1, 0, 1>>, <<1, 0, -1>>, <<0, 1, 1>>, <<0, 1, -1>>} : dot(a, v) = 0}

\* Quaternion::FromTwoVectors(a, b): the quaternions it can return.  With
\* v0, v1 the normalized inputs and c = v1.v0, the result is
\* (s/2, (v0 x v1)/s), s = sqrt(2(1+c)), a positive multiple of
\* (1 + c, v0 x v1); for c = -1 it is (0, axis), axis orthogonal to v0.
FromTwoVectors(a, b) ==
  LET v0 == normalized(a)
      v1 == normalized(b)
      c == dot(v1, v0)
      axis == cross(v0, v1)
  IN IF c = -1
       THEN {<<0, x[1], x[2], x[3]>> : x \in OrthogonalAxes(v0)}
       ELSE {<<1 + c, axis[1], axis[2], axis[3]>>}

----------------------------------------------------------------------------
\* update(): the inequality matrix and bounds derived from R_ and box_

half(x) == x \div 2

row6(f, m) == f \o m

\* update() with the half extents exchanged
update_A_swapped(A, R, box) ==
  LET Z == setZeroMatrix(A)
      L == half(box[2])
      W == half(box[1])
  IN [Z EXCEPT ![1] = row6(scale(-W, col(R, 3)), col(R, 1)),
               ![2] = row6(scale(-W, col(R, 3)), neg(col(R, 1))),
               ![3] = row6(scale(-L, col(R, 3)), col(R, 2)),
               ![4] = row6(scale(-L, col(R, 3)), neg(col(R, 2)))]

\* update() without A_.setZero(), adding the rows to what A_ held
update_A_accumulating(A, R, box) ==
  LET L == half(box[1])
      W == half(box[2])
      rows == << row6(scale(-W, col(R, 3)), col(R, 1)),
                 row6(scale(-W, col(R, 3)), neg(col(R, 1))),
                 row6(scale(-L, col(R, 3)), col(R, 2)),
                 row6(scale(-L, col(R, 3)), neg(col(R, 2))) >>
  IN [i \in 1..4 |-> [j \in 1..6 |-> A[i][j] + rows[i][j]]]

update_A(A, R, box) ==
  LET Z == setZeroMatrix(A)
      L == half(box[1])
      W == half(box[2])
  IN [Z EXCEPT ![1] = row6(scale(-W, col(R, 3)), col(R, 1)),
               ![2] = row6(scale(-W, col(R, 3)), neg(col(R, 1))),
               ![3] = row6(scale(-L, col(R, 3)), col(R, 2)),
               ![4] = row6(scale(-L, col(R, 3)), neg(col(R, 2)))]

update_ub(ub) == setZero(ub)

\* update() without the sign of the lower bound
update_lb_positive(lb) == scale(ScalarMax, setOnes(lb))

update_lb(lb) == scale(-ScalarMax, setOnes(lb))

\* A_.setZero(); ub_.setZero(); lb_.setZero() of the constructors
Zero46 == [i \in 1..4 |-> [j \in 1..6 |-> 0]]
Zero4 == [i \in 1..4 |-> 0]

----------------------------------------------------------------------------
\* Arguments the callers pass

Rotations ==
  { Identity,
    << <<1, 0, 0>>, <<0, 0, -1>>, <<0, 1, 0>> >>,
    << <<0, -1, 0>>, <<1, 0, 0>>, <<0, 0, 1>> >>,
    << <<1, 0, 0>>, <<0, -1, 0>>, <<0, 0, -1>> >> }
NonRotations ==
  { << <<2, 0, 0>>, <<0, 2, 0>>, <<0, 0, 2>> >>,
    << <<1, 0, 0>>, <<0, 1, 0>>, <<0, 0, -1>> >> }
Matrices == Rotations \cup NonRotations

Directions == {<<0, 0, 1>>, <<0, 0, -1>>, <<1, 0, 0>>, <<0, 1, 0>>}
Normals == {scale(k, d) : k \in 1..MaxNorm, d \in Directions}
UnitNormals == {n \in Normals : isUnitary(n)}

Extents == {-20, ScalarMax} \cup {2 * h : h \in 1..MaxHalfExtent}
Boxes == {<<l, w>> : l \in Extents, w \in Extents}

\* Wrench cones handed to the converting constructor: their matrix and
\* bounds are their own, not the ones update() derives.
WrenchCones ==
  { [A |-> [i \in 1..4 |-> <<7, 0, -3, 1, 1, 0>>], ub |-> <<5, 5, 5, 5>>,
     lb |-> <<-5, -5, -5, -5>>, R |-> Identity, nsurf |-> UnitZ, box |-> <<4, 2>>],
    [A |-> [i \in 1..4 |-> <<0, 0, -i, 0, i, 0>>], ub |-> <<0, 0, 0, 0>>,
     lb |-> <<-9, -9, -9, -9>>,
     R |-> << <<1, 0, 0>>, <<0, 0, -1>>, <<0, 1, 0>> >>, nsurf |-> <<0, 1, 0>>,
     box |-> <<ScalarMax, 2>>] }

----------------------------------------------------------------------------
\* Constructors

\* the normal taken as R * up
nsurf_of_R_untransposed(R) == MatVec(R, UnitZ)

\* nsurf_ = R_.transpose() * Vector3s::UnitZ()
nsurf_of_R(R) == MatVec(transpose(R), UnitZ)

\* CoPSupportTpl()
CoPSupportTpl_default ==
  /\ R_ = Identity
  /\ nsurf_ = UnitZ
  /\ box_ = <<ScalarMax, ScalarMax>>
  /\ A_ = update_A(Zero46, R_, box_)
  /\ ub_ = update_ub(Zero4)
  /\ lb_ = update_lb(Zero4)
  /\ last = [op |-> "CoPSupportTpl()", arg |-> <<>>]

\* CoPSupportTpl(R, box)
CoPSupportTpl_R_box(Rs) ==
  \E R \in Rs, box \in Boxes :
    /\ R_ = R
    /\ nsurf_ = nsurf_of_R(R_)
    /\ box_ = box
    /\ A_ = update_A(Zero46, R_, box_)
    /\ ub_ = update_ub(Zero4)
    /\ lb_ = update_lb(Zero4)
    /\ last = [op |-> "CoPSupportTpl(R, box)", arg |-> <<R, box>>]

\* CoPSupportTpl(nsurf, box)
CoPSupportTpl_nsurf_box(Ns) ==
  \E nsurf \in Ns, box \in Boxes :
    \E q \in FromTwoVectors(nsurf, UnitZ) :
      /\ R_ = toRotationMatrix(q)
      /\ nsurf_ = nsurf
      /\ box_ = box
      /\ A_ = update_A(Zero46, R_, box_)
      /\ ub_ = update_ub(Zero4)
      /\ lb_ = update_lb(Zero4)
      /\ last = [op |-> "CoPSupportTpl(nsurf, box)", arg |-> <<nsurf, box>>]

\* the converting constructor followed by update()
CoPSupportTpl_cone_updated ==
  \E support \in WrenchCones :
    /\ A_ = update_A(support.A, support.R, support.box)
    /\ ub_ = update_ub(support.ub)
    /\ lb_ = update_lb(support.lb)
    /\ R_ = support.R
    /\ nsurf_ = support.nsurf
    /\ box_ = support.box
    /\ last = [op |-> "CoPSupportTpl(cone)", arg |-> support]

\* CoPSupportTpl(const WrenchConeTpl&)
CoPSupportTpl_cone ==
  \E support \in WrenchCones :
    /\ A_ = support.A
    /\ ub_ = support.ub
    /\ lb_ = support.lb
    /\ R_ = support.R
    /\ nsurf_ = support.nsurf
    /\ box_ = support.box
    /\ last = [op |-> "CoPSupportTpl(cone)", arg |-> support]

----------------------------------------------------------------------------
\* Member functions

update ==
  /\ A_' = update_A(A_, R_, box_)
  /\ ub_' = update_ub(ub_)
  /\ lb_' = update_lb(lb_)
  /\ last' = [op |-> "update", arg |-> <<last.op>>]
  /\ UNCHANGED <<R_, nsurf_, box_>>

set_R(Rs) ==
  \E R \in Rs :
    /\ R_' = R
    /\ nsurf_' = nsurf_of_R(R_')
    /\ last' = [op |-> "set_R", arg |-> R]
    /\ UNCHANGED <<box_, A_, ub_, lb_>>

set_nsurf ==
  \E nsurf \in Normals :
    LET n == IF ~isUnitary(nsurf) THEN [i \in 1..3 |-> nsurf[i] \div norm(nsurf)]
                                  ELSE nsurf
    IN \E q \in FromTwoVectors(n, UnitZ) :
         /\ nsurf_' = n
         /\ R_' = toRotationMatrix(q)
         /\ last' = [op |-> "set_nsurf", arg |-> nsurf]
         /\ UNCHANGED <<box_, A_, ub_, lb_>>

set_box ==
  \E box \in Boxes :
    LET b0 == IF box[1] < 0 THEN ScalarMax ELSE box[1]
        b1 == IF box[2] < 0 THEN ScalarMax ELSE box[2]
    IN /\ box_' = <<b0, b1>>
       /\ last' = [op |-> "set_box", arg |-> box]
       /\ UNCHANGED <<R_, nsurf_, A_, ub_, lb_>>

----------------------------------------------------------------------------
\* Every constructor, every argument
Init ==
  \/ CoPSupportTpl_default
  \/ CoPSupportTpl_R_box(Matrices)
  \/ CoPSupportTpl_nsurf_box(Normals)
  \/ CoPSupportTpl_cone

Next ==
  \/ update
  \/ set_R(Matrices)
  \/ set_nsurf
  \/ set_box

Spec == Init /\ [][Next]_vars

\* The three constructors that derive the matrix, every argument
InitDerived ==
  \/ CoPSupportTpl_default
  \/ CoPSupportTpl_R_box(Matrices)
  \/ CoPSupportTpl_nsurf_box(Normals)

SpecDerived == InitDerived /\ [][Next]_vars

\* Callers that pass set_R and the (R, box) constructor proper rotations only
NextValid ==
  \/ update
  \/ set_R(Rotations)
  \/ set_nsurf
  \/ set_box

\* ... and the (nsurf, box) constructor unit normals only
InitValid ==
  \/ CoPSupportTpl_R_box(Rotations)
  \/ CoPSupportTpl_nsurf_box(UnitNormals)

SpecValid == InitValid /\ [][NextValid]_vars

\* ... or the (nsurf, box) constructor any normal
InitNormal == CoPSupportTpl_nsurf_box(Normals)

SpecNormal == InitNormal /\ [][NextValid]_vars

----------------------------------------------------------------------------
\* Properties

DerivingCtors == {"CoPSupportTpl()", "CoPSupportTpl(R, box)", "CoPSupportTpl(nsurf, box)"}
ExtentCtors == {"CoPSupportTpl(R, box)", "CoPSupportTpl(nsurf, box)"}
Setters == {"set_R", "set_nsurf", "set_box"}

\* What the derivation gives for orientation R and extent box, entry by entry
HalfExtentOfRow(i, box) == IF i <= 2 THEN box[2] \div 2 ELSE box[1] \div 2
DerivedEntry(i, j, R, box) ==
  IF j <= 3 THEN -(HalfExtentOfRow(i, box) * R[j][3])
  ELSE IF i % 2 = 1 THEN R[j - 3][(i + 1) \div 2] ELSE -R[j - 3][(i + 1) \div 2]
Consistent(A, ub, lb, R, box) ==
  /\ \A i \in 1..4 : \A j \in 1..6 : A[i][j] = DerivedEntry(i, j, R, box)
  /\ \A i \in 1..4 : ub[i] = 0 /\ lb[i] = -ScalarMax

C2_UpdateRows ==
  last.op \in DerivingCtors \cup {"update"} =>
    LET c0 == <<R_[1][1], R_[2][1], R_[3][1]>>
        c1 == <<R_[1][2], R_[2][2], R_[3][2]>>
        c2 == <<R_[1][3], R_[2][3], R_[3][3]>>
        L == box_[1] \div 2
        W == box_[2] \div 2
        mW == <<-(W * c2[1]), -(W * c2[2]), -(W * c2[3])>>
        mL == <<-(L * c2[1]), -(L * c2[2]), -(L * c2[3])>>
    IN /\ A_ = << mW \o c0, mW \o <<-c0[1], -c0[2], -c0[3]>>,
                  mL \o c1, mL \o <<-c1[1], -c1[2], -c1[3]>> >>
       /\ ub_ = <<0, 0, 0, 0>>
       /\ lb_ = <<-ScalarMax, -ScalarMax, -ScalarMax, -ScalarMax>>
       /\ (R_ = Identity /\ box_ = <<4, 2>>) =>
            A_ = << <<0, 0, -1, 1, 0, 0>>, <<0, 0, -1, -1, 0, 0>>,
                    <<0, 0, -2, 0, 1, 0>>, <<0, 0, -2, 0, -1, 0>> >>

\* update() has derived the rows of a tilted orientation with distinct half extents
C2_UpdatedTilted ==
  /\ last.op = "update"
  /\ R_ = << <<1, 0, 0>>, <<0, 0, -1>>, <<0, 1, 0>> >>
  /\ box_ = <<4, 2>>
  /\ A_[1] = <<0, 1, 0, 1, 0, 0>>
  /\ A_[3] = <<0, 2, 0, 0, 0, 1>>

\* C3: constructed from a proper rotation or a unit normal, and after set_R
\* (proper rotations) and set_nsurf calls, the stored normal is
\* transpose(get_R) * up, get_R maps it onto the up axis, and the
\* (nsurf, box) constructor stores its unit normal as given.
C3_NormalIsRtUp ==
  /\ nsurf_ = <<R_[3][1], R_[3][2], R_[3][3]>>
  /\ <<dot(R_[1], nsurf_), dot(R_[2], nsurf_), dot(R_[3], nsurf_)>> = <<0, 0, 1>>
  /\ last.op = "CoPSupportTpl(nsurf, box)" => nsurf_ = last.arg[1]

\* set_R has stored a rotation whose third row and third column differ
C3_SetTiltedRotation ==
  /\ last.op = "set_R"
  /\ R_ # transpose(R_)
  /\ nsurf_ = <<0, 1, 0>>

\* C4: after constructing from a proper rotation R or set_R(R), get_nsurf is
\* the third column of get_R, the vector update() scales by the half extents
\* in the force block of the matrix.
C4_NormalIsThirdColumn ==
  /\ (last.op \in {"CoPSupportTpl(R, box)", "set_R"} /\ IsRotation(R_)) =>
       nsurf_ = <<R_[1][3], R_[2][3], R_[3][3]>>
  /\ (last.op = "CoPSupportTpl(R, box)" /\ IsRotation(R_)) =>
       <<A_[1][1], A_[1][2], A_[1][3]>> =
         [i \in 1..3 |-> -((box_[2] \div 2) * nsurf_[i])]

\* C5: in every state reached from a constructor taking an extent, both
\* components of get_box are non-negative: a negative component given to the
\* constructor or to set_box is stored as max, the others unchanged.
C5_BoxNonNegative ==
  /\ box_[1] >= 0
  /\ box_[2] >= 0
  /\ last.op \in ExtentCtors =>
       box_ = [i \in 1..2 |-> IF last.arg[2][i] < 0 THEN ScalarMax ELSE last.arg[2][i]]
  /\ last.op = "set_box" =>
       box_ = [i \in 1..2 |-> IF last.arg[i] < 0 THEN ScalarMax ELSE last.arg[i]]

\* C6: the stored normal is unit length in every reachable state: a non-unit
\* normal given to the (nsurf, box) constructor or to set_nsurf is stored
\* normalized.
C6_NormalIsUnit == dot(nsurf_, nsurf_) = 1

\* C7: set_R with a matrix that is not a proper rotation leaves orientation,
\* normal, extent, matrix and bounds unchanged.
C7_RejectsNonRotation ==
  [][ (last'.op = "set_R" /\ ~IsRotation(last'.arg)) => UNCHANGED state ]_vars

\* C8: the default-constructed descriptor (extent (max, max)) has an all-zero
\* matrix, and every finite wrench satisfies lb <= A wrench <= ub on all rows.
Wrenches ==
  {<<0, 0, 1, 0, 0, 0>>, <<0, 0, 0, 1, 0, 0>>, <<0, 0, 0, 0, -1, 0>>, <<1, 0, 1, 0, 1, 0>>}
RowTimes(r, w) ==
  r[1] * w[1] + r[2] * w[2] + r[3] * w[3] + r[4] * w[4] + r[5] * w[5] + r[6] * w[6]
C8_DefaultIsUnconstrained ==
  last.op = "CoPSupportTpl()" =>
    /\ \A i \in 1..4 : \A j \in 1..6 : A_[i][j] = 0
    /\ \A w \in Wrenches : \A i \in 1..4 :
         lb_[i] <= RowTimes(A_[i], w) /\ RowTimes(A_[i], w) <= ub_[i]

\* C9: constructed from a wrench cone, get_A, get_ub, get_lb, get_R, get_nsurf
\* and get_box are the cone's, and the derivation has not overwritten them.
C9_ConeCopiedVerbatim ==
  last.op = "CoPSupportTpl(cone)" =>
    /\ A_ = last.arg.A
    /\ ub_ = last.arg.ub
    /\ lb_ = last.arg.lb
    /\ R_ = last.arg.R
    /\ nsurf_ = last.arg.nsurf
    /\ box_ = last.arg.box

\* constructed from a cone whose matrix is not the derived one
C9_ConeWithOwnMatrix ==
  /\ last.op = "CoPSupportTpl(cone)"
  /\ A_[1] = <<7, 0, -3, 1, 1, 0>>
  /\ ~Consistent(A_, ub_, lb_, R_, box_)

\* C10: update() leaves R_, nsurf_ and box_ unchanged, its result does not
\* depend on what A_, ub_ and lb_ held, and a second update() in a row
\* changes nothing.
C10_UpdateIdempotent ==
  [][ last'.op = "update" =>
        /\ UNCHANGED <<R_, nsurf_, box_>>
        /\ A_' = update_A(Zero46, R_, box_)
        /\ ub_' = update_ub(<<1, 1, 1, 1>>)
        /\ lb_' = update_lb(<<1, 1, 1, 1>>)
        /\ last.op = "update" => UNCHANGED <<A_, ub_, lb_>> ]_vars

\* update() has been called twice in a row
C10_UpdatedTwice ==
  /\ last.op = "update"
  /\ last.arg = <<"update">>
  /\ A_ # Zero46

====
